---- MODULE Spec2Model ----
(***************************************************************************)
(* A model of examples/animate-nfit.py: the decoding of a profile's        *)
(* percentile and span from its name, the per-profile exponential moving   *)
(* averages, the daily 95th percentiles of the last active profile, the    *)
(* Pxx value shown for a profile and the frame-by-frame regression         *)
(* build-up of the animation.                                              *)
(*                                                                         *)
(* Strings are sequences of one-character strings.  Floating point values  *)
(* are exact rationals <<numerator, denominator>> with denominator > 0;    *)
(* NaN is <<0, 0>>.                                                        *)
(***************************************************************************)
EXTENDS Integers, Sequences, FiniteSets, TLC

\* ------------------------------------------------------------------ bounds

\* Longest enumerated profile name.
MaxNameLen == 5

\* Characters of the enumerated profile names.
Alphabet == {"-", "W", "P", "0", "1", "7", "x"}

\* ------------------------------------------------------------ characters

Digits == {"0", "1", "2", "3", "4", "5", "6", "7", "8", "9"}

\* The regular expression class \d.
IsDigit(c) == c \in Digits

DigitVal(c) ==
    CASE c = "0" -> 0 [] c = "1" -> 1 [] c = "2" -> 2 [] c = "3" -> 3
      [] c = "4" -> 4 [] c = "5" -> 5 [] c = "6" -> 6 [] c = "7" -> 7
      [] c = "8" -> 8 [] c = "9" -> 9

\* Python's int() of a non-empty string of decimal digits.
RECURSIVE int(_)
int(ds) ==
    IF Len(ds) = 0 THEN 0
    ELSE 10 * int(SubSeq(ds, 1, Len(ds) - 1)) + DigitVal(ds[Len(ds)])

max(a, b) == IF a >= b THEN a ELSE b

min(a, b) == IF a <= b THEN a ELSE b

\* ---------------------------------------------------- regular expressions

\* The number of characters the greedy \d+ takes from position i on (0: none).
RECURSIVE DigitRunLen(_, _)
DigitRunLen(s, i) ==
    IF i <= Len(s) /\ IsDigit(s[i]) THEN 1 + DigitRunLen(s, i + 1) ELSE 0

\* -(\d+)W tried at position i: group 1, or <<>> when there is no match there.
\* \d+ is greedy and gives characters back until a W follows.
MatchHyphenDigitsW(s, i) ==
    IF i > Len(s) \/ s[i] # "-" THEN <<>>
    ELSE LET run == DigitRunLen(s, i + 1)
             ok  == {n \in 1..run : i + n + 1 <= Len(s) /\ s[i + n + 1] = "W"}
         IN  IF ok = {} THEN <<>>
             ELSE LET n == CHOOSE m \in ok : \A k \in ok : k <= m
                  IN  SubSeq(s, i + 1, i + n)

\* <letter>(\d+) tried at position i: group 1, or <<>>.
MatchLetterDigits(letter, s, i) ==
    IF i > Len(s) \/ s[i] # letter THEN <<>>
    ELSE SubSeq(s, i + 1, i + DigitRunLen(s, i + 1))

\* re.search(r'-(\d+)W', s): the match at the leftmost position that has one.
RECURSIVE SearchHyphenDigitsW(_, _)
SearchHyphenDigitsW(s, i) ==
    IF i > Len(s) THEN <<>>
    ELSE IF MatchHyphenDigitsW(s, i) # <<>> THEN MatchHyphenDigitsW(s, i)
    ELSE SearchHyphenDigitsW(s, i + 1)

\* re.search(r'P(\d+)', s) and re.search(r'W(\d+)', s).
RECURSIVE SearchLetterDigits(_, _, _)
SearchLetterDigits(letter, s, i) ==
    IF i > Len(s) THEN <<>>
    ELSE IF MatchLetterDigits(letter, s, i) # <<>> THEN MatchLetterDigits(letter, s, i)
    ELSE SearchLetterDigits(letter, s, i + 1)

\* re.findall(r'\d+', s): the maximal digit runs, left to right.
RECURSIVE findall_digits(_, _)
findall_digits(s, i) ==
    IF i > Len(s) THEN <<>>
    ELSE IF IsDigit(s[i])
         THEN <<SubSeq(s, i, i + DigitRunLen(s, i) - 1)>>
              \o findall_digits(s, i + DigitRunLen(s, i))
         ELSE findall_digits(s, i + 1)

\* A scan of the digit runs first to last instead of last to first.
RECURSIVE ScanForward(_, _, _)
ScanForward(numbers, i, j) ==
    IF i > j THEN 90
    ELSE IF 70 <= int(numbers[i]) /\ int(numbers[i]) <= 100 THEN int(numbers[i])
    ELSE ScanForward(numbers, i + 1, j)

ScanReversed_first_to_last(numbers, j) == ScanForward(numbers, 1, j)

\* for num_str in reversed(numbers): the first value in [70, 100], else 90.
RECURSIVE ScanReversed(_, _)
ScanReversed(numbers, j) ==
    IF j = 0 THEN 90
    ELSE IF 70 <= int(numbers[j]) /\ int(numbers[j]) <= 100 THEN int(numbers[j])
    ELSE ScanReversed(numbers, j - 1)

\* The P<digits> rule tried before the -<digits>W rule.
get_percentile_from_name_P_first(profile_name) ==
    LET m1 == SearchHyphenDigitsW(profile_name, 1)
        m2 == SearchLetterDigits("P", profile_name, 1)
        numbers == findall_digits(profile_name, 1)
    IN  IF m2 # <<>> /\ 0 <= int(m2) /\ int(m2) <= 100 THEN int(m2)
        ELSE IF m1 # <<>> THEN int(m1)
        ELSE ScanReversed(numbers, Len(numbers))

get_percentile_from_name(profile_name) ==
    LET m1 == SearchHyphenDigitsW(profile_name, 1)
        m2 == SearchLetterDigits("P", profile_name, 1)
        numbers == findall_digits(profile_name, 1)
    IN  IF m1 # <<>> THEN int(m1)
        ELSE IF m2 # <<>> /\ 0 <= int(m2) /\ int(m2) <= 100 THEN int(m2)
        ELSE ScanReversed(numbers, Len(numbers))

\* The span without its floor of 1.
get_w_value_from_name_no_floor(profile_name) ==
    LET m == SearchLetterDigits("W", profile_name, 1)
    IN  IF m # <<>> THEN int(m) ELSE 1

get_w_value_from_name(profile_name) ==
    LET m == SearchLetterDigits("W", profile_name, 1)
    IN  IF m # <<>> THEN max(1, int(m)) ELSE 1

\* ---------------------------------------------------------------- numbers

RECURSIVE gcd(_, _)
gcd(a, b) == IF b = 0 THEN a ELSE gcd(b, a % b)

abs(a) == IF a < 0 THEN -a ELSE a

NaN == <<0, 0>>

isnan(x) == x[2] = 0

\* The rational n/d (d > 0) in lowest terms.
Rat(n, d) ==
    LET g == gcd(abs(n), d) IN <<n \div g, d \div g>>

lcm(a, b) == (a \div gcd(a, b)) * b

add(x, y) ==
    IF isnan(x) \/ isnan(y) THEN NaN
    ELSE LET l == lcm(x[2], y[2])
         IN  Rat(x[1] * (l \div x[2]) + y[1] * (l \div y[2]), l)

neg(x) == IF isnan(x) THEN NaN ELSE <<-x[1], x[2]>>

sub(x, y) == add(x, neg(y))

mul(x, y) ==
    IF isnan(x) \/ isnan(y) THEN NaN
    ELSE LET g1 == gcd(abs(x[1]), y[2])
             g2 == gcd(abs(y[1]), x[2])
         IN  <<(x[1] \div g1) * (y[1] \div g2), (x[2] \div g2) * (y[2] \div g1)>>

\* x / y for y # 0.
div(x, y) ==
    IF isnan(x) \/ isnan(y) THEN NaN
    ELSE IF y[1] > 0 THEN mul(x, <<y[2], y[1]>>)
    ELSE mul(x, <<-y[2], -y[1]>>)

\* x < y on defined values.
less(x, y) ==
    LET l == lcm(x[2], y[2])
    IN  x[1] * (l \div x[2]) < y[1] * (l \div y[2])

\* Python's int() of a non-negative rational: the integer part.
floor(x) == x[1] \div x[2]

RECURSIVE sum(_)
sum(xs) == IF Len(xs) = 0 THEN <<0, 1>> ELSE add(xs[1], sum(Tail(xs)))

\* ------------------------------------------------------- pandas and numpy

\* Series.ewm(alpha=alpha, adjust=False, ignore_na=True).mean(): the output
\* at t given the running average `weighted` before t.  Until the first
\* defined sample the output is NaN; a later NaN sample leaves the average
\* as it is.
EwmStep(weighted, cur, alpha) ==
    IF isnan(weighted) THEN cur
    ELSE IF isnan(cur) THEN weighted
    ELSE add(mul(sub(<<1, 1>>, alpha), weighted), mul(alpha, cur))

RECURSIVE EwmFrom(_, _, _, _)
EwmFrom(vals, alpha, t, weighted) ==
    IF t > Len(vals) THEN <<>>
    ELSE LET w == EwmStep(weighted, vals[t], alpha)
         IN  <<w>> \o EwmFrom(vals, alpha, t + 1, w)

\* The running average started at 0 instead of at the first sample.
ewm_alpha_mean_from_zero(vals, alpha) == EwmFrom(vals, alpha, 1, <<0, 1>>)

ewm_alpha_mean(vals, alpha) == EwmFrom(vals, alpha, 1, NaN)

\* Series.ewm(span=span, ...).mean(): alpha = 2 / (span + 1).
ewm_span_mean(vals, span) == ewm_alpha_mean(vals, Rat(2, span + 1))

\* Series.dropna().
dropna(vals) == SelectSeq(vals, LAMBDA v : ~isnan(v))

\* vals with v inserted before the first element that is not below v.
RECURSIVE Insert(_, _)
Insert(sorted, v) ==
    IF Len(sorted) = 0 THEN <<v>>
    ELSE IF less(sorted[1], v) THEN <<sorted[1]>> \o Insert(Tail(sorted), v)
    ELSE <<v>> \o sorted

RECURSIVE sort(_)
sort(vals) ==
    IF Len(vals) = 0 THEN <<>> ELSE Insert(sort(Tail(vals)), vals[1])

\* np.percentile(a, q), linear interpolation between the two order
\* statistics around the rank q/100 * (n - 1).  A q outside [0, 100] raises
\* ValueError; a NaN in a makes the result NaN; an a of no elements has no
\* order statistic to index (IndexError).
np_percentile(a, q) ==
    IF q < 0 \/ q > 100 THEN [err |-> "ValueError", val |-> NaN]
    ELSE IF Len(a) = 0 THEN [err |-> "IndexError", val |-> NaN]
    ELSE IF \E i \in 1..Len(a) : isnan(a[i]) THEN [err |-> "", val |-> NaN]
    ELSE LET srt  == sort(a)
             rank == Rat(q * (Len(a) - 1), 100)
             lo   == floor(rank)
             frac == sub(rank, <<lo, 1>>)
             hi   == min(lo + 1, Len(a) - 1)
         IN  [err |-> "",
              val |-> add(srt[lo + 1], mul(frac, sub(srt[hi + 1], srt[lo + 1])))]

mean(xs) == div(sum(xs), <<Len(xs), 1>>)

\* np.polyfit(x, y, 1) for two or more points with distinct x: the least
\* squares line <<slope, intercept>>, in exact arithmetic.  A NaN in y makes
\* both NaN.
np_polyfit1(x, y) ==
    LET mx  == mean(x)
        my  == mean(y)
        sxy == sum([i \in 1..Len(x) |-> mul(sub(x[i], mx), sub(y[i], my))])
        sxx == sum([i \in 1..Len(x) |-> mul(sub(x[i], mx), sub(x[i], mx))])
        slope == div(sxy, sxx)
    IN  <<slope, sub(my, mul(slope, mx))>>

\* ---------------------------------------------------------- profile names

\* The keys of USER_DEFINED_ALPHAS, the entry that is commented out included.
Name_P99W1 ==
    <<"P", "-", "9", "9", "W", "1", " ", "(", "P", "e", "a", "k", ",", " ", "e", "x", "t", "r", "e", "m", "e", ")">>

Name_O1_99W5 ==
    <<"O", "1", "-", "9", "9", "W", "5", " ", "(", "T", "i", "e", "r", " ", "1", ",", " ", "v", "e", "r", "y", "-", "h", "i", "g", "h", ")">>

Name_O2_98W10 ==
    <<"O", "2", "-", "9", "8", "W", "1", "0", " ", "(", "T", "i", "e", "r", " ", "2", ",", " ", "h", "i", "g", "h", ")">>

Name_O3_95W15 ==
    <<"O", "3", "-", "9", "5", "W", "1", "5", " ", "(", "T", "i", "e", "r", " ", "3", ",", " ", "r", "e", "s", "p", "o", "n", "s", "i", "v", "e", ")">>

Name_O4_90W15 ==
    <<"O", "4", "-", "9", "0", "W", "1", "5", " ", "(", "T", "i", "e", "r", " ", "4", ",", " ", "n", "o", "r", "m", "a", "l", ")">>

\* The names the specification decodes as examples.
Str_O2_98W10 == <<"O", "2", "-", "9", "8", "W", "1", "0">>

Str_P_99W1 == <<"P", "-", "9", "9", "W", "1">>

Str_mystery == <<"m", "y", "s", "t", "e", "r", "y">>

Str_X_150W1 == <<"X", "-", "1", "5", "0", "W", "1">>

Str_P200P50 == <<"P", "2", "0", "0", "P", "5", "0">>

Str_X_95W1 == <<"X", "-", "9", "5", "W", "1">>

ExampleNames ==
    {Name_P99W1, Name_O1_99W5, Name_O2_98W10, Name_O3_95W15, Name_O4_90W15,
     Str_O2_98W10, Str_P_99W1, Str_mystery, Str_X_150W1, Str_P200P50, Str_X_95W1}

\* Every name over Alphabet of at most MaxNameLen characters, and the examples.
Names ==
    UNION {[1..n -> Alphabet] : n \in 0..MaxNameLen} \cup ExampleNames

\* ------------------------------------------------------------------ inputs

\* The bounds of the inputs: the longest raw series, the most days, the most
\* samples per day and the most configured profiles.
MaxLen == 2

MaxDays == 2

MaxPointsPerDay == 2

MaxProfiles == 4

\* The values of the raw samples.
Samples == {NaN, <<1, 1>>, <<3, 1>>}

\* The profile names in the order of active_profile_names_ordered, followed
\* by the entry that the program has commented out.
Catalogue == <<Name_P99W1, Name_O1_99W5, Name_O2_98W10, Name_O4_90W15, Name_O3_95W15>>

Range(f) == {f[i] : i \in DOMAIN f}

\* The primary alpha that USER_DEFINED_ALPHAS gives a profile.
UserDefinedAlpha(name) ==
    CASE name = Name_P99W1 -> <<1, 2>>
      [] name = Name_O1_99W5 -> <<3, 10>>
      [] name = Name_O2_98W10 -> <<3, 20>>
      [] name = Name_O3_95W15 -> <<4, 5>>
      [] name = Name_O4_90W15 -> <<1, 100>>

\* The lengths of the animation's phases, in frames.  The program draws the
\* raw data in 280 frames, each EMA in 200, pauses 100, 100 and 120 frames
\* and 5000 ms before the repeat; the model keeps the phases and shortens
\* them.
frames_raw_data == 1

frames_per_profile_ema_target == 2

frames_delay_after_raw == 1

frames_delay_between_emas == 1

frames_delay_after_all_emas == 1

pause_duration_before_repeat_ms == 50

animation_interval_ms == 50

\* ------------------------------------------------------------------ state

VARIABLES
    pc,                     \* the position of the program
    profile_name,           \* the name handed to the decoders
    percentile_val,         \* get_percentile_from_name(profile_name)
    w_span_for_smoothing,   \* get_w_value_from_name(profile_name)
    raw_cpu_data,           \* the raw series
    num_days,
    points_per_day,
    active_profile_names_ordered,
    USER_DEFINED_ALPHAS,    \* profile name -> primary alpha
    profile_emas_data,      \* profile name -> EMA series
    active_profile_emas,    \* the non-empty entries of profile_emas_data
    num_active_profiles,
    frames_per_profile_ema,
    total_frames_for_animation,
    line_raw_plot,          \* the y data of the raw line
    profile_lines_plots,    \* one line per active profile, in order
    scatter_reg_points,     \* the <<time, value>> offsets of the scatter
    line_reg_plot,          \* the x and y data of the regression line
    last_active_profile_name,
    smoothest_ema_series_for_reg,
    daily_p95_values,
    daily_time_points,
    pxx_text_artist,
    pxx_horizontal_line,
    frame_num,              \* the frame update_animation_multi drew last
    polyfit_args,           \* what the last frame handed to np.polyfit
    percentile_args         \* the series the last step handed to np.percentile

decode_vars == <<profile_name, percentile_val, w_span_for_smoothing>>

input_vars ==
    <<raw_cpu_data, num_days, points_per_day, active_profile_names_ordered,
      USER_DEFINED_ALPHAS>>

ema_vars == <<profile_emas_data, active_profile_emas, num_active_profiles>>

frame_vars == <<frames_per_profile_ema, total_frames_for_animation>>

daily_vars ==
    <<last_active_profile_name, smoothest_ema_series_for_reg, daily_p95_values,
      daily_time_points>>

artist_vars ==
    <<line_raw_plot, profile_lines_plots, scatter_reg_points, line_reg_plot,
      pxx_text_artist, pxx_horizontal_line>>

vars ==
    <<pc, decode_vars, input_vars, ema_vars, frame_vars, daily_vars, artist_vars,
      frame_num, polyfit_args, percentile_args>>

\* No name: Python's None where a profile name is expected.
NoName == <<>>

\* The text of pxx_text_artist: what it says (kind), about which profile,
\* and the value it prints with two decimals.
Text(kind, profile, percentile, span, cores) ==
    [kind |-> kind, profile |-> profile, percentile |-> percentile, span |-> span,
     cores |-> cores]

NoText == Text("", NoName, -1, -1, NaN)

\* The artists before init_animation_multi has created them (None).
NoTextArtist == [exists |-> FALSE, visible |-> FALSE, text |-> NoText]

NoLineArtist == [exists |-> FALSE, visible |-> FALSE, ydata |-> <<0, 1>>]

\* The state before the program has run.
NothingComputed ==
    /\ profile_emas_data = <<>>
    /\ active_profile_emas = <<>>
    /\ num_active_profiles = 0
    /\ frames_per_profile_ema = 0
    /\ total_frames_for_animation = 0
    /\ line_raw_plot = <<>>
    /\ profile_lines_plots = <<>>
    /\ scatter_reg_points = <<>>
    /\ line_reg_plot = [x |-> <<>>, y |-> <<>>, slope |-> NaN]
    /\ last_active_profile_name = NoName
    /\ smoothest_ema_series_for_reg = <<>>
    /\ daily_p95_values = <<>>
    /\ daily_time_points = <<>>
    /\ pxx_text_artist = NoTextArtist
    /\ pxx_horizontal_line = NoLineArtist
    /\ frame_num = -1
    /\ polyfit_args = <<>>
    /\ percentile_args = {}

\* ------------------------------------------------ decoding a profile name

\* display_profile_pxx is about to decode the name of a profile.
InitDecode ==
    /\ pc = "get_percentile"
    /\ profile_name \in Names
    /\ percentile_val = -1
    /\ w_span_for_smoothing = -1
    /\ raw_cpu_data = <<>>
    /\ num_days = 0
    /\ points_per_day = 1
    /\ active_profile_names_ordered = <<>>
    /\ USER_DEFINED_ALPHAS = <<>>
    /\ NothingComputed

\* percentile_val = get_percentile_from_name(profile_name)
DecodePercentile ==
    /\ pc = "get_percentile"
    /\ percentile_val' = get_percentile_from_name(profile_name)
    /\ pc' = "get_w"
    /\ UNCHANGED <<profile_name, w_span_for_smoothing, input_vars, ema_vars,
                   frame_vars, daily_vars, artist_vars, frame_num, polyfit_args,
                   percentile_args>>

\* w_span_for_smoothing = get_w_value_from_name(profile_name)
DecodeSpan ==
    /\ pc = "get_w"
    /\ w_span_for_smoothing' = get_w_value_from_name(profile_name)
    /\ pc' = "decoded"
    /\ UNCHANGED <<profile_name, percentile_val, input_vars, ema_vars,
                   frame_vars, daily_vars, artist_vars, frame_num, polyfit_args,
                   percentile_args>>

NextDecode == DecodePercentile \/ DecodeSpan

SpecDecode == InitDecode /\ [][NextDecode]_vars

\* ------------------------------------------------------------ the program

\* The program starts with a raw series, the day grid and the profiles.  The
\* program generates a series of num_days * points_per_day defined samples
\* and lists four profiles, each with an alpha; here the series is any
\* series of at most MaxLen samples, defined or not, so that partial and
\* empty day buckets occur, the list is a prefix of the catalogue, and any
\* of its profiles may lack an entry in USER_DEFINED_ALPHAS.
Init ==
    /\ pc = "ema"
    /\ profile_name = NoName
    /\ percentile_val = -1
    /\ w_span_for_smoothing = -1
    /\ raw_cpu_data \in UNION {[1..n -> Samples] : n \in 0..MaxLen}
    /\ num_days \in 0..MaxDays
    /\ points_per_day \in 1..MaxPointsPerDay
    /\ active_profile_names_ordered \in
          {SubSeq(Catalogue, 1, n) : n \in 0..min(MaxProfiles, Len(Catalogue))}
    /\ USER_DEFINED_ALPHAS \in
          {[name \in S |-> UserDefinedAlpha(name)] :
              S \in SUBSET Range(active_profile_names_ordered)}
    /\ NothingComputed

\* The number of samples of the raw series (and of time_days).
total_points == Len(raw_cpu_data)

\* profile_emas_data[name] for the names of the list, and the active ones.
ComputeEMAs ==
    /\ pc = "ema"
    /\ LET emas == [name \in Range(active_profile_names_ordered) |->
                      IF name \in DOMAIN USER_DEFINED_ALPHAS
                      THEN ewm_alpha_mean(raw_cpu_data, USER_DEFINED_ALPHAS[name])
                      ELSE <<>>]
           active == {name \in DOMAIN emas : emas[name] # <<>>}
       IN  /\ profile_emas_data' = emas
           /\ active_profile_emas' = [name \in active |-> emas[name]]
           /\ num_active_profiles' = Cardinality(active)
    /\ pc' = "frames"
    /\ UNCHANGED <<decode_vars, input_vars, frame_vars, daily_vars, artist_vars,
                   frame_num, polyfit_args,
                   percentile_args>>

frames_regression_buildup == num_days

frames_for_loop_pause ==
    LET n == IF animation_interval_ms > 0
             THEN pause_duration_before_repeat_ms \div animation_interval_ms ELSE 0
    IN  IF n <= 0 /\ pause_duration_before_repeat_ms > 0 THEN 1 ELSE n

\* The lengths of the phases and the number of frames of one loop.
ComputeFrameCounts ==
    /\ pc = "frames"
    /\ LET per_profile ==
               IF num_active_profiles > 0
               THEN (frames_per_profile_ema_target * num_active_profiles)
                        \div num_active_profiles
               ELSE 0
           content ==
               frames_raw_data + frames_delay_after_raw
                 + num_active_profiles * per_profile
                 + max(0, num_active_profiles - 1) * frames_delay_between_emas
                 + frames_delay_after_all_emas + frames_regression_buildup
       IN  /\ frames_per_profile_ema' = per_profile
           /\ total_frames_for_animation' = content + frames_for_loop_pause
    /\ pc' = "plots"
    /\ UNCHANGED <<decode_vars, input_vars, ema_vars, daily_vars, artist_vars,
                   frame_num, polyfit_args,
                   percentile_args>>

\* A line of profile_lines_plots: its label, its y data and the profile whose
\* EMA series the y data was taken from.
Line(label, ydata, source) == [label |-> label, ydata |-> ydata, source |-> source]

\* The names of the list that are active, in the list's order.
ActiveInOrder == SelectSeq(active_profile_names_ordered,
                           LAMBDA name : name \in DOMAIN active_profile_emas)

\* One empty line per active profile, in the order of the list.
CreatePlots ==
    /\ pc = "plots"
    /\ profile_lines_plots' =
          [j \in 1..Len(ActiveInOrder) |-> Line(ActiveInOrder[j], <<>>, NoName)]
    /\ pc' = "daily"
    /\ UNCHANGED <<decode_vars, input_vars, ema_vars, frame_vars, daily_vars,
                   line_raw_plot, scatter_reg_points, line_reg_plot,
                   pxx_text_artist, pxx_horizontal_line, frame_num, polyfit_args,
                   percentile_args>>

\* The list scanned first to last: the first active profile of names[1..i].
LastActive_first_active(names, i) ==
    IF \E j \in 1..i : names[j] \in DOMAIN active_profile_emas
    THEN names[CHOOSE j \in 1..i :
                   /\ names[j] \in DOMAIN active_profile_emas
                   /\ \A k \in 1..(j - 1) : names[k] \notin DOMAIN active_profile_emas]
    ELSE NoName

\* for name in reversed(active_profile_names_ordered): the first active one.
RECURSIVE LastActive(_, _)
LastActive(names, i) ==
    IF i = 0 THEN NoName
    ELSE IF names[i] \in DOMAIN active_profile_emas THEN names[i]
    ELSE LastActive(names, i - 1)

\* series[start:stop] of Python, for 0 <= start.
Slice(series, start, stop) == SubSeq(series, start + 1, min(stop, Len(series)))

\* The samples of a day without the first of them.
DayData_skip_first(series, day_idx) ==
    Slice(series, day_idx * points_per_day + 1,
          min((day_idx + 1) * points_per_day, Len(series)))

\* The samples of a day: series[start_idx:min(end_idx, len(series))].
DayData(series, day_idx) ==
    Slice(series, day_idx * points_per_day,
          min((day_idx + 1) * points_per_day, Len(series)))

\* for day_idx in range(num_days): the daily P95 values and their times,
\* from day_idx on, and the day_data handed to np.percentile (args).
RECURSIVE DailyLoop(_, _)
DailyLoop(series, day_idx) ==
    IF day_idx >= num_days THEN [p95 |-> <<>>, time |-> <<>>, args |-> {}]
    ELSE LET rest == DailyLoop(series, day_idx + 1)
         IN  IF day_idx * points_per_day < Len(series)
                  /\ DayData(series, day_idx) # <<>>
             THEN [p95  |-> <<np_percentile(DayData(series, day_idx), 95).val>>
                               \o rest.p95,
                   time |-> <<Rat(2 * day_idx + 1, 2)>> \o rest.time,
                   args |-> {DayData(series, day_idx)} \cup rest.args]
             ELSE rest

\* daily_p95_values and daily_time_points of the last active profile.
ComputeDailyP95 ==
    /\ pc = "daily"
    /\ LET last == IF num_active_profiles > 0
                   THEN LastActive(active_profile_names_ordered,
                                   Len(active_profile_names_ordered))
                   ELSE NoName
           series == IF last # NoName THEN active_profile_emas[last] ELSE <<>>
           daily == IF series # <<>> THEN DailyLoop(series, 0)
                    ELSE [p95 |-> <<>>, time |-> <<>>, args |-> {}]
       IN  /\ last_active_profile_name' = last
           /\ smoothest_ema_series_for_reg' = series
           /\ daily_p95_values' = daily.p95
           /\ daily_time_points' = daily.time
           /\ percentile_args' = daily.args
    /\ pc' = "init"
    /\ UNCHANGED <<decode_vars, input_vars, ema_vars, frame_vars, artist_vars,
                   frame_num, polyfit_args>>

\* FuncAnimation calls init_func before the first frame and again before
\* every repeat of the loop.
init_animation_multi ==
    /\ \/ pc = "init"
       \/ pc = "animate" /\ frame_num = total_frames_for_animation - 1
    /\ line_raw_plot' = <<>>
    /\ profile_lines_plots' =
          [j \in 1..Len(profile_lines_plots) |->
              Line(profile_lines_plots[j].label, <<>>, NoName)]
    /\ scatter_reg_points' = <<>>
    /\ line_reg_plot' = [line_reg_plot EXCEPT !.x = <<>>, !.y = <<>>]
    /\ pxx_text_artist' = [exists |-> TRUE, visible |-> FALSE, text |-> NoText]
    /\ pxx_horizontal_line' = [exists |-> TRUE, visible |-> FALSE, ydata |-> <<0, 1>>]
    /\ frame_num' = -1
    /\ pc' = "animate"
    /\ UNCHANGED <<decode_vars, input_vars, ema_vars, frame_vars, daily_vars,
                   polyfit_args,
                   percentile_args>>

\* f'{v:.2f}': v >= 0 rounded to hundredths, a tie to the even digit.
round2(v) ==
    IF isnan(v) THEN NaN
    ELSE LET scaled == mul(v, <<100, 1>>)
             q      == floor(scaled)
             r      == sub(scaled, <<q, 1>>)
             up     == less(<<1, 2>>, r) \/ (r = <<1, 2>> /\ q % 2 = 1)
         IN  Rat(IF up THEN q + 1 ELSE q, 100)

\* The Pxx taken from the EMA series itself, without the second smoothing.
pxx_value_calculated_single_pass(original_ema_series, percentile, span) ==
    IF original_ema_series # <<>>
    THEN LET smoothed_for_pxx == dropna(original_ema_series)
         IN  IF smoothed_for_pxx # <<>>
             THEN LET p == np_percentile(smoothed_for_pxx, percentile)
                  IN  [kind |-> IF p.err = "" THEN "cores" ELSE p.err, val |-> p.val,
                       args |-> {smoothed_for_pxx}]
             ELSE [kind |-> "N/A (smoothing error)", val |-> NaN, args |-> {}]
    ELSE [kind |-> "N/A (no base EMA)", val |-> NaN, args |-> {}]

\* The Pxx taken whether or not the series have elements.
pxx_value_calculated_unguarded(original_ema_series, percentile, span) ==
    LET smoothed_for_pxx == dropna(ewm_span_mean(original_ema_series, span))
        p == np_percentile(smoothed_for_pxx, percentile)
    IN  [kind |-> IF p.err = "" THEN "cores" ELSE p.err, val |-> p.val,
         args |-> {smoothed_for_pxx}]

\* Lines 184-194 of display_profile_pxx: the Pxx of an EMA series, the series
\* smoothed again over the decoded span, without its undefined values, and
\* the series handed to np.percentile (args).
pxx_value_calculated(original_ema_series, percentile, span) ==
    IF original_ema_series # <<>>
    THEN LET smoothed_for_pxx == dropna(ewm_span_mean(original_ema_series, span))
         IN  IF smoothed_for_pxx # <<>>
             THEN LET p == np_percentile(smoothed_for_pxx, percentile)
                  IN  [kind |-> IF p.err = "" THEN "cores" ELSE p.err, val |-> p.val,
                       args |-> {smoothed_for_pxx}]
             ELSE [kind |-> "N/A (smoothing error)", val |-> NaN, args |-> {}]
    ELSE [kind |-> "N/A (no base EMA)", val |-> NaN, args |-> {}]

\* display_profile_pxx(profile_idx_to_show, ...): the artists after the call,
\* the exception it raised ("" for none) and the series it handed to
\* np.percentile.
display_profile_pxx(profile_idx_to_show, text_artist, horizontal_line_artist) ==
    LET same == [text |-> text_artist, hline |-> horizontal_line_artist, err |-> "",
                 args |-> {}]
        hidden == [horizontal_line_artist EXCEPT !.visible = FALSE]
    IN  IF ~text_artist.exists \/ ~horizontal_line_artist.exists THEN same
        ELSE IF profile_idx_to_show >= Len(active_profile_names_ordered)
        THEN [same EXCEPT
                !.text = [text_artist EXCEPT
                            !.text = Text("Invalid profile index", NoName, -1, -1, NaN),
                            !.visible = TRUE],
                !.hline = hidden]
        ELSE LET name == active_profile_names_ordered[profile_idx_to_show + 1]
             IN  IF name \notin DOMAIN active_profile_emas
                 THEN [same EXCEPT
                         !.text = [text_artist EXCEPT
                                     !.text = Text("Data not available", name, -1, -1, NaN),
                                     !.visible = TRUE],
                         !.hline = hidden]
                 ELSE LET percentile == get_percentile_from_name(name)
                          span == get_w_value_from_name(name)
                          pxx == pxx_value_calculated(active_profile_emas[name],
                                                      percentile, span)
                      IN  IF pxx.kind \in {"ValueError", "IndexError"}
                          THEN [text |-> text_artist, hline |-> hidden,
                                err |-> pxx.kind, args |-> pxx.args]
                          ELSE [text |-> [text_artist EXCEPT
                                            !.text = Text(pxx.kind, name, percentile,
                                                          span, round2(pxx.val)),
                                            !.visible = TRUE],
                                hline |-> IF pxx.kind = "cores"
                                          THEN [hidden EXCEPT !.ydata = pxx.val,
                                                              !.visible = TRUE]
                                          ELSE hidden,
                                err |-> "", args |-> pxx.args]

\* int(((frame_in_phase + 1) / frames) * total_points), at most total_points.
current_idx(frame_in_phase, frames) ==
    min(floor(Rat((frame_in_phase + 1) * total_points, frames)), total_points)

\* Phase 2 of update_animation_multi from the profile at 0-based index
\* profile_idx_ordered on: what frame f is ("draw" the profile's line, "pause"
\* after it, or "after" all lines), with plotted_ema_idx and the frame counter.
RECURSIVE Phase2(_, _, _, _)
Phase2(f, profile_idx_ordered, counter, plotted_ema_idx) ==
    LET here(kind) == [kind |-> kind, profile_idx_ordered |-> profile_idx_ordered,
                       plotted_ema_idx |-> plotted_ema_idx, counter |-> counter]
        drawn == counter + frames_per_profile_ema
    IN  IF profile_idx_ordered >= Len(active_profile_names_ordered) THEN here("after")
        ELSE IF active_profile_names_ordered[profile_idx_ordered + 1]
                    \notin DOMAIN active_profile_emas
        THEN Phase2(f, profile_idx_ordered + 1, counter, plotted_ema_idx)
        ELSE IF f < drawn THEN here("draw")
        ELSE IF plotted_ema_idx < num_active_profiles - 1
        THEN IF f < drawn + frames_delay_between_emas THEN here("pause")
             ELSE Phase2(f, profile_idx_ordered + 1,
                         drawn + frames_delay_between_emas, plotted_ema_idx + 1)
        ELSE Phase2(f, profile_idx_ordered + 1, drawn, plotted_ema_idx + 1)

\* Lines 289-296: for i in range(plotted_ema_idx), the line at i is given the
\* whole EMA of the profile at i of the list, when that profile is active.
PreviousLines(lines, plotted_ema_idx) ==
    [j \in 1..Len(lines) |->
        IF j <= plotted_ema_idx
              /\ active_profile_names_ordered[j] \in DOMAIN active_profile_emas
        THEN Line(lines[j].label,
                  active_profile_emas[active_profile_names_ordered[j]],
                  active_profile_names_ordered[j])
        ELSE lines[j]]

\* Lines 322-327: every line is given the whole EMA of its profile.
AllLines(lines) ==
    [j \in 1..Len(lines) |->
        Line(lines[j].label, active_profile_emas[ActiveInOrder[j]], ActiveInOrder[j])]

\* Lines 330-334: the 0-based index of the last active profile, or -1.
RECURSIVE last_active_profile_original_idx(_)
last_active_profile_original_idx(i) ==
    IF i < 0 THEN -1
    ELSE IF active_profile_names_ordered[i + 1] \in DOMAIN active_profile_emas THEN i
    ELSE last_active_profile_original_idx(i - 1)

\* The regression one daily point ahead of the frame.
Regression_one_more_point(regression_phase_frame_num) ==
    LET num_daily_points_to_show ==
            min(Len(daily_time_points), regression_phase_frame_num + 2)
        times == SubSeq(daily_time_points, 1, num_daily_points_to_show)
        values == SubSeq(daily_p95_values, 1, num_daily_points_to_show)
        fit == np_polyfit1(times, values)
    IN  IF num_daily_points_to_show > 0
        THEN [scatter |-> [j \in 1..num_daily_points_to_show |-> <<times[j], values[j]>>],
              line |-> IF num_daily_points_to_show > 1
                       THEN [x |-> times,
                             y |-> [j \in 1..num_daily_points_to_show |->
                                       add(mul(fit[1], times[j]), fit[2])],
                             slope |-> fit[1]]
                       ELSE [line_reg_plot EXCEPT !.x = <<>>, !.y = <<>>],
              fit |-> IF num_daily_points_to_show > 1 THEN <<times, values>> ELSE <<>>]
        ELSE [scatter |-> scatter_reg_points, line |-> line_reg_plot, fit |-> <<>>]

\* Lines 373-389: the scatter, the regression line and the arguments of
\* np.polyfit with regression_phase_frame_num + 1 daily points at most.
Regression(regression_phase_frame_num) ==
    LET num_daily_points_to_show ==
            min(Len(daily_time_points), regression_phase_frame_num + 1)
        times == SubSeq(daily_time_points, 1, num_daily_points_to_show)
        values == SubSeq(daily_p95_values, 1, num_daily_points_to_show)
        fit == np_polyfit1(times, values)
    IN  IF num_daily_points_to_show > 0
        THEN [scatter |-> [j \in 1..num_daily_points_to_show |-> <<times[j], values[j]>>],
              line |-> IF num_daily_points_to_show > 1
                       THEN [x |-> times,
                             y |-> [j \in 1..num_daily_points_to_show |->
                                       add(mul(fit[1], times[j]), fit[2])],
                             slope |-> fit[1]]
                       ELSE [line_reg_plot EXCEPT !.x = <<>>, !.y = <<>>],
              fit |-> IF num_daily_points_to_show > 1 THEN <<times, values>> ELSE <<>>]
        ELSE [scatter |-> scatter_reg_points, line |-> line_reg_plot, fit |-> <<>>]

\* What a frame leaves behind: the data of the artists and the exception
\* raised ("" for none).
Effect(raw, lines, shown, reg) ==
    [raw |-> raw, lines |-> lines, text |-> shown.text, hline |-> shown.hline,
     err |-> shown.err, args |-> shown.args, scatter |-> reg.scatter,
     line |-> reg.line, fit |-> reg.fit]

\* update_animation_multi(f): the effect of frame f.
FrameEffect(f) ==
    LET text0 == [pxx_text_artist EXCEPT !.visible = FALSE]
        hline0 == [pxx_horizontal_line EXCEPT !.visible = FALSE]
        not_shown == [text |-> text0, hline |-> hline0, err |-> "", args |-> {}]
        no_reg == [scatter |-> scatter_reg_points, line |-> line_reg_plot, fit |-> <<>>]
        after_raw == frames_raw_data + frames_delay_after_raw
        ph == Phase2(f, 0, after_raw, 0)
        current_name == active_profile_names_ordered[ph.profile_idx_ordered + 1]
        current_ema_data == active_profile_emas[current_name]
        current_line(ydata) ==
            Line(profile_lines_plots[ph.plotted_ema_idx + 1].label, ydata, current_name)
        last_idx == last_active_profile_original_idx(Len(active_profile_names_ordered) - 1)
    IN  IF f < frames_raw_data
        THEN Effect(SubSeq(raw_cpu_data, 1, current_idx(f, frames_raw_data)),
                    profile_lines_plots, not_shown, no_reg)
        ELSE IF f < after_raw
        THEN Effect(raw_cpu_data, profile_lines_plots, not_shown, no_reg)
        ELSE IF ph.kind = "draw"
        THEN Effect(line_raw_plot,
                    [PreviousLines(profile_lines_plots, ph.plotted_ema_idx)
                       EXCEPT ![ph.plotted_ema_idx + 1] =
                         current_line(SubSeq(current_ema_data, 1,
                                             current_idx(f - ph.counter,
                                                         frames_per_profile_ema)))],
                    not_shown, no_reg)
        ELSE IF ph.kind = "pause"
        THEN Effect(line_raw_plot,
                    [profile_lines_plots EXCEPT ![ph.plotted_ema_idx + 1] =
                         current_line(current_ema_data)],
                    display_profile_pxx(ph.profile_idx_ordered, text0, hline0), no_reg)
        ELSE IF f < ph.counter + frames_delay_after_all_emas
        THEN Effect(line_raw_plot, AllLines(profile_lines_plots),
                    IF num_active_profiles > 0 /\ last_idx # -1
                    THEN display_profile_pxx(last_idx, text0, hline0)
                    ELSE not_shown,
                    no_reg)
        ELSE IF f < ph.counter + frames_delay_after_all_emas + frames_regression_buildup
        THEN Effect(line_raw_plot, profile_lines_plots, not_shown,
                    Regression(f - (ph.counter + frames_delay_after_all_emas)))
        ELSE Effect(line_raw_plot, profile_lines_plots, not_shown, no_reg)

\* FuncAnimation draws the next frame of the loop.  An exception that
\* update_animation_multi raises ends the animation.
update_animation_multi ==
    /\ pc = "animate"
    /\ frame_num + 1 < total_frames_for_animation
    /\ \E e \in {FrameEffect(frame_num + 1)} :
           /\ line_raw_plot' = e.raw
           /\ profile_lines_plots' = e.lines
           /\ scatter_reg_points' = e.scatter
           /\ line_reg_plot' = e.line
           /\ pxx_text_artist' = e.text
           /\ pxx_horizontal_line' = e.hline
           /\ polyfit_args' = e.fit
           /\ percentile_args' = e.args
           /\ pc' = IF e.err = "" THEN "animate" ELSE e.err
    /\ frame_num' = frame_num + 1
    /\ UNCHANGED <<decode_vars, input_vars, ema_vars, frame_vars, daily_vars>>

Next ==
    \/ ComputeEMAs
    \/ ComputeFrameCounts
    \/ CreatePlots
    \/ ComputeDailyP95
    \/ init_animation_multi
    \/ update_animation_multi

Spec == Init /\ [][Next]_vars

\* ------------------------------------------- properties of the decoding

RECURSIVE Pow10(_)
Pow10(n) == IF n = 0 THEN 1 ELSE 10 * Pow10(n - 1)

\* The number written in decimal at positions a..b of s.
RECURSIVE Decimal(_, _, _)
Decimal(s, a, b) ==
    IF a > b THEN 0 ELSE DigitVal(s[a]) * Pow10(b - a) + Decimal(s, a + 1, b)

AllDigits(s, a, b) == \A k \in a..b : IsDigit(s[k])

\* The positions where a maximal digit run of s starts, and where one ends.
RunStarts(s) == {a \in 1..Len(s) : IsDigit(s[a]) /\ (a = 1 \/ ~IsDigit(s[a - 1]))}

RunEnds(s) == {b \in 1..Len(s) : IsDigit(s[b]) /\ (b = Len(s) \/ ~IsDigit(s[b + 1]))}

\* The maximal digit runs of s, as <<first, last>> positions.
DigitRuns(s) ==
    {r \in RunStarts(s) \X RunEnds(s) : r[1] <= r[2] /\ AllDigits(s, r[1], r[2])}

\* The occurrences of a hyphen, one or more digits and W, as the digits'
\* <<first, last>> positions.
HyphenDigitsW(s) ==
    {r \in DigitRuns(s) :
        /\ r[1] > 1 /\ s[r[1] - 1] = "-"
        /\ r[2] < Len(s) /\ s[r[2] + 1] = "W"}

\* The occurrences of `letter` and the digit run that follows it, as the
\* run's <<first, last>> positions.
LetterDigits(letter, s) ==
    {r \in DigitRuns(s) : r[1] > 1 /\ s[r[1] - 1] = letter}

Leftmost(occ) == CHOOSE r \in occ : \A q \in occ : r[1] <= q[1]

Rightmost(occ) == CHOOSE r \in occ : \A q \in occ : q[1] <= r[1]

ValueAt(s, r) == Decimal(s, r[1], r[2])

PercentileDecoded == pc \in {"get_w", "decoded"}

\* C1: a name that contains a hyphen, digits and W decodes to the value of
\* the digits of the leftmost such occurrence, whatever P<digits> or other
\* digit runs it contains.
C1_HyphenDigitsWWins ==
    (PercentileDecoded /\ HyphenDigitsW(profile_name) # {}) =>
        percentile_val = ValueAt(profile_name, Leftmost(HyphenDigitsW(profile_name)))

\* A name with a -<digits>W occurrence and a P<digits> occurrence of another
\* value in [0, 100] has been decoded to the former.
C1_Witness ==
    /\ PercentileDecoded
    /\ HyphenDigitsW(profile_name) # {}
    /\ \E r \in LetterDigits("P", profile_name) :
          /\ ValueAt(profile_name, r) \in 0..100
          /\ ValueAt(profile_name, r) # percentile_val
    /\ percentile_val = ValueAt(profile_name, Leftmost(HyphenDigitsW(profile_name)))

\* C2: the decoded percentile of every name is in [0, 100].
C2_PercentileInRange ==
    PercentileDecoded => percentile_val \in 0..100

\* C3: a name without a -<digits>W occurrence that contains a P<digits>
\* occurrence with a value in [0, 100] decodes to the value of such an
\* occurrence, also when an earlier P<digits> has a value above 100.
C3_AnyPDigitsInRange ==
    LET inrange == {r \in LetterDigits("P", profile_name) :
                        ValueAt(profile_name, r) \in 0..100}
    IN  (PercentileDecoded /\ HyphenDigitsW(profile_name) = {} /\ inrange # {}) =>
            percentile_val \in {ValueAt(profile_name, r) : r \in inrange}

\* Neither the -<digits>W rule nor the P<digits> rule, applied to the
\* leftmost P<digits>, gives the percentile of s.
NoRuleMatches(s) ==
    /\ HyphenDigitsW(s) = {}
    /\ \/ LetterDigits("P", s) = {}
       \/ ValueAt(s, Leftmost(LetterDigits("P", s))) \notin 0..100

RunsIn70To100(s) == {r \in DigitRuns(s) : ValueAt(s, r) \in 70..100}

\* C4: a name that neither rule matches decodes to the value of its last
\* digit run in [70, 100], and to 90 when it has none.
C4_LastRunOrDefault ==
    (PercentileDecoded /\ NoRuleMatches(profile_name)) =>
        percentile_val =
            IF RunsIn70To100(profile_name) = {} THEN 90
            ELSE ValueAt(profile_name, Rightmost(RunsIn70To100(profile_name)))

\* A name with two digit runs of different values in [70, 100] has been
\* decoded to the later one.
C4_Witness ==
    /\ PercentileDecoded
    /\ NoRuleMatches(profile_name)
    /\ \E r \in RunsIn70To100(profile_name) :
          ValueAt(profile_name, r) # percentile_val
    /\ percentile_val = ValueAt(profile_name, Rightmost(RunsIn70To100(profile_name)))

\* C5: the decoded span is max(1, d) for the digits d after the leftmost
\* W<digits>, and 1 without one.
C5_SpanFlooredAtOne ==
    pc = "decoded" =>
        /\ w_span_for_smoothing >= 1
        /\ w_span_for_smoothing =
             IF LetterDigits("W", profile_name) = {} THEN 1
             ELSE LET d == ValueAt(profile_name, Leftmost(LetterDigits("W", profile_name)))
                  IN  IF d >= 1 THEN d ELSE 1

\* A name whose leftmost W<digits> has the value 0 has been decoded to 1.
C5_Witness ==
    /\ pc = "decoded"
    /\ LetterDigits("W", profile_name) # {}
    /\ ValueAt(profile_name, Leftmost(LetterDigits("W", profile_name))) = 0
    /\ w_span_for_smoothing = 1

\* ------------------------------------------- properties of the program

EmasComputed == pc \in {"frames", "plots", "daily", "init", "animate"}

DailyComputed == pc \in {"init", "animate"}

\* C6: a profile with a configured alpha has an EMA series of the length of
\* the raw series whose first element is the first raw sample, when that is
\* defined; a profile without one has an empty EMA series and is not active.
C6_EmaLengthAndFirst ==
    EmasComputed =>
        /\ DOMAIN profile_emas_data = Range(active_profile_names_ordered)
        /\ \A name \in Range(active_profile_names_ordered) :
              IF name \in DOMAIN USER_DEFINED_ALPHAS
              THEN /\ Len(profile_emas_data[name]) = Len(raw_cpu_data)
                   /\ (raw_cpu_data # <<>> /\ ~isnan(raw_cpu_data[1])) =>
                          profile_emas_data[name][1] = raw_cpu_data[1]
              ELSE /\ profile_emas_data[name] = <<>>
                   /\ name \notin DOMAIN active_profile_emas

\* The EMAs of a raw series of two different defined samples have been
\* computed for a list with a configured and an unconfigured profile.
C6_Witness ==
    /\ EmasComputed
    /\ Len(raw_cpu_data) >= 2
    /\ ~isnan(raw_cpu_data[1]) /\ ~isnan(raw_cpu_data[2])
    /\ raw_cpu_data[1] # raw_cpu_data[2]
    /\ \E name \in Range(active_profile_names_ordered) :
          name \in DOMAIN USER_DEFINED_ALPHAS
    /\ \E name \in Range(active_profile_names_ordered) :
          name \notin DOMAIN USER_DEFINED_ALPHAS

\* The percentile and the span that the decoding rules give a name.
RulePercentile(s) ==
    IF HyphenDigitsW(s) # {} THEN ValueAt(s, Leftmost(HyphenDigitsW(s)))
    ELSE IF ~NoRuleMatches(s) THEN ValueAt(s, Leftmost(LetterDigits("P", s)))
    ELSE IF RunsIn70To100(s) # {} THEN ValueAt(s, Rightmost(RunsIn70To100(s)))
    ELSE 90

RuleSpan(s) ==
    IF LetterDigits("W", s) = {} THEN 1
    ELSE LET d == ValueAt(s, Leftmost(LetterDigits("W", s)))
         IN  IF d >= 1 THEN d ELSE 1

RECURSIVE DropLeadingNaN(_)
DropLeadingNaN(xs) ==
    IF xs = <<>> \/ ~isnan(xs[1]) THEN xs ELSE DropLeadingNaN(Tail(xs))

\* y[1] = x[1], y[t] = alpha * x[t] + (1 - alpha) * y[t - 1].
RECURSIVE SmoothedAt(_, _, _)
SmoothedAt(xs, alpha, t) ==
    IF t = 1 THEN xs[1]
    ELSE add(mul(alpha, xs[t]),
             mul(sub(<<1, 1>>, alpha), SmoothedAt(xs, alpha, t - 1)))

Smoothed(xs, alpha) == [t \in 1..Len(xs) |-> SmoothedAt(xs, alpha, t)]

PxxShown == pc = "animate" /\ pxx_text_artist.visible

\* C7: the Pxx shown for a profile is the percentile, at the percentile of
\* its name, of its EMA series smoothed again with alpha = 2 / (span + 1),
\* leading undefined values dropped; with span 1 it is the percentile of the
\* EMA series itself.
C7_PxxOfTwiceSmoothed ==
    (PxxShown /\ pxx_text_artist.text.kind = "cores") =>
        LET name == pxx_text_artist.text.profile
            ema == DropLeadingNaN(active_profile_emas[name])
            twice == Smoothed(ema, Rat(2, RuleSpan(name) + 1))
            pxx == np_percentile(twice, RulePercentile(name)).val
        IN  /\ name \in DOMAIN active_profile_emas
            /\ pxx_text_artist.text.percentile = RulePercentile(name)
            /\ pxx_text_artist.text.span = RuleSpan(name)
            /\ pxx_horizontal_line.visible
            /\ pxx_horizontal_line.ydata = pxx
            /\ pxx_text_artist.text.cores = round2(pxx)
            /\ RuleSpan(name) = 1 =>
                  pxx_horizontal_line.ydata = np_percentile(ema, RulePercentile(name)).val

\* The Pxx of a profile with a span above 1 is shown and differs from the
\* percentile of the profile's EMA series.
C7_Witness ==
    /\ PxxShown
    /\ pxx_text_artist.text.kind = "cores"
    /\ pxx_text_artist.text.span > 1
    /\ pxx_horizontal_line.ydata #
          np_percentile(DropLeadingNaN(active_profile_emas[pxx_text_artist.text.profile]),
                        pxx_text_artist.text.percentile).val

\* The days of [0, num_days) whose index range in a series of length n is
\* not empty.
NonEmptyDays(n) ==
    {day \in 0..(num_days - 1) :
        day * points_per_day < min((day + 1) * points_per_day, n)}

\* The samples of a day, by index.
Bucket(series, day) ==
    [i \in 1..(min((day + 1) * points_per_day, Len(series)) - day * points_per_day) |->
        series[day * points_per_day + i]]

\* C8: the daily aggregate has one entry for each day with a non-empty index
\* range and no other, at day + 0.5 with the 95th percentile of the day's
\* samples, in increasing order of the day.
C8_DailyEntries ==
    DailyComputed =>
        LET series == smoothest_ema_series_for_reg
            days == NonEmptyDays(Len(series))
        IN  /\ Len(daily_time_points) = Cardinality(days)
            /\ Len(daily_p95_values) = Cardinality(days)
            /\ \A day \in days :
                  \E j \in 1..Len(daily_time_points) :
                      /\ daily_time_points[j] = Rat(2 * day + 1, 2)
                      /\ daily_p95_values[j] = np_percentile(Bucket(series, day), 95).val
            /\ \A j \in 1..(Len(daily_time_points) - 1) :
                  less(daily_time_points[j], daily_time_points[j + 1])

\* The aggregate has an entry with a defined value while a later day of the
\* grid has no samples and no entry.
C8_Witness ==
    /\ DailyComputed
    /\ Len(daily_time_points) >= 1
    /\ ~isnan(daily_p95_values[1])
    /\ Len(daily_time_points) < num_days

\* The profiles with a non-empty EMA series, in the order of the list.
NonEmptyInOrder ==
    SelectSeq(active_profile_names_ordered,
              LAMBDA name : profile_emas_data[name] # <<>>)

\* C9: the series of the daily aggregation and the trend is the EMA series
\* of the last profile of the list that has a non-empty one, wherever the
\* inactive profiles are; an inactive profile is never shown with a Pxx; with
\* no active profile there is no daily aggregate and no trend.
C9_LastActiveProfile ==
    DailyComputed =>
        /\ IF NonEmptyInOrder = <<>>
           THEN /\ last_active_profile_name = NoName
                /\ daily_p95_values = <<>> /\ daily_time_points = <<>>
                /\ scatter_reg_points = <<>>
                /\ line_reg_plot.x = <<>> /\ line_reg_plot.y = <<>>
                /\ polyfit_args = <<>>
                /\ ~pxx_text_artist.visible
           ELSE /\ last_active_profile_name = NonEmptyInOrder[Len(NonEmptyInOrder)]
                /\ smoothest_ema_series_for_reg =
                      profile_emas_data[NonEmptyInOrder[Len(NonEmptyInOrder)]]
        /\ pxx_text_artist.visible =>
              pxx_text_artist.text.profile \in Range(NonEmptyInOrder)

\* The daily aggregate has been taken from an active profile that has an
\* inactive profile after it, an inactive one before it and another active
\* one with a different EMA series before it.
C9_Witness ==
    /\ DailyComputed
    /\ daily_p95_values # <<>>
    /\ \E i, j, k \in 1..Len(active_profile_names_ordered) :
          /\ i < k /\ j < k
          /\ active_profile_names_ordered[k] = last_active_profile_name
          /\ active_profile_names_ordered[i] \notin DOMAIN active_profile_emas
          /\ active_profile_names_ordered[j] \in DOMAIN active_profile_emas
          /\ active_profile_emas[active_profile_names_ordered[j]]
                # smoothest_ema_series_for_reg
          /\ k < Len(active_profile_names_ordered)

\* The first frame of the regression build-up.
RegressionStart ==
    frames_raw_data + frames_delay_after_raw
      + num_active_profiles * frames_per_profile_ema
      + (IF num_active_profiles > 1 THEN num_active_profiles - 1 ELSE 0)
            * frames_delay_between_emas
      + frames_delay_after_all_emas

InRegression ==
    /\ pc \notin {"ema", "frames", "plots", "daily", "init"}
    /\ frame_num >= RegressionStart
    /\ frame_num < RegressionStart + num_days

\* The daily points available at the frame drawn last.
PointsAvailable ==
    IF frame_num - RegressionStart + 1 <= Len(daily_time_points)
    THEN frame_num - RegressionStart + 1 ELSE Len(daily_time_points)

Defined(xs) == \A i \in 1..Len(xs) : ~isnan(xs[i])

\* The points <<x[j], y[j]>> are on the least squares line of <<x[j], v[j]>>:
\* they are on one line and the residuals v - y are orthogonal to 1 and to x.
IsLeastSquaresLine(x, y, v) ==
    /\ \A j \in 1..Len(x) :
          mul(sub(y[j], y[1]), sub(x[2], x[1])) = mul(sub(y[2], y[1]), sub(x[j], x[1]))
    /\ sum([j \in 1..Len(x) |-> sub(v[j], y[j])]) = <<0, 1>>
    /\ sum([j \in 1..Len(x) |-> mul(x[j], sub(v[j], y[j]))]) = <<0, 1>>

\* C10: a regression frame with fewer than 2 daily points available fits no
\* line, leaves the trend line empty and raises nothing; with 2 or more it
\* fits the line over exactly the points available.
C10_TrendNeedsTwoPoints ==
    InRegression =>
        LET m == PointsAvailable
            times == SubSeq(daily_time_points, 1, m)
            values == SubSeq(daily_p95_values, 1, m)
        IN  /\ pc = "animate"
            /\ IF m < 2
               THEN /\ polyfit_args = <<>>
                    /\ line_reg_plot.x = <<>> /\ line_reg_plot.y = <<>>
               ELSE /\ polyfit_args = <<times, values>>
                    /\ line_reg_plot.x = times
                    /\ Len(line_reg_plot.y) = m
                    /\ Defined(values) =>
                          /\ IsLeastSquaresLine(times, line_reg_plot.y, values)
                          /\ mul(line_reg_plot.slope, sub(times[2], times[1]))
                                = sub(line_reg_plot.y[2], line_reg_plot.y[1])

\* A line of slope other than 0 has been fitted over two or more points.
C10_Witness ==
    /\ InRegression
    /\ PointsAvailable >= 2
    /\ polyfit_args # <<>>
    /\ Defined(daily_p95_values)
    /\ ~isnan(line_reg_plot.slope)
    /\ line_reg_plot.slope # <<0, 1>>

\* The profile shown and its EMA series smoothed again over the span of its
\* name, undefined values dropped.
TwiceSmoothedOfShown ==
    LET name == pxx_text_artist.text.profile
    IN  Smoothed(DropLeadingNaN(active_profile_emas[name]),
                 Rat(2, RuleSpan(name) + 1))

NotAvailable == {"N/A (no base EMA)", "N/A (smoothing error)"}

IsPrefix(xs, ys) == Len(xs) <= Len(ys) /\ xs = SubSeq(ys, 1, Len(xs))

\* C12: wherever the inactive profiles are in the list, the line created for
\* an active profile holds, at every frame, nothing or the first elements of
\* that profile's own EMA series, never data of another profile.
C12_SlotsKeepTheirProfile ==
    \A j \in 1..Len(profile_lines_plots) :
        LET line == profile_lines_plots[j]
        IN  /\ line.source \in {NoName, line.label}
            /\ IsPrefix(line.ydata, active_profile_emas[line.label])

====
